---------------------------- MODULE Spec2Model ----------------------------
(***************************************************************************)
(* Model of the banking core (banking/banking.py, banking/types.py) and of *)
(* the application flows that call it and persist its results (app.py,     *)
(* db/crud.py).                                                            *)
(*                                                                         *)
(* Money is a Decimal in the source; the model counts it in whole minor    *)
(* units, on which Decimal addition, subtraction and comparison are the    *)
(* integer ones.                                                           *)
(***************************************************************************)
EXTENDS Integers, Sequences, FiniteSets, TLC

(***************************************************************************)
(* Bounds of the model.                                                    *)
(***************************************************************************)
MaxBalance == 3
MaxCalls == 4
MaxAttempts == 2

(***************************************************************************)
(* Input domains.                                                          *)
(***************************************************************************)
AccountIds == {"acc123", "wrong_id"}
Currencies == {"USD", "EUR"}
Timestamps == {1, 2}
Owners == {[id |-> "own123", first_name |-> "John", last_name |-> "Doe"]}
Balances == (0 - 1) .. MaxBalance
Amounts == (0 - 1) .. (MaxBalance + 1)

(***************************************************************************)
(* banking/types.py                                                        *)
(***************************************************************************)
BankAccount(id, balance, currency, owner) ==
    [id |-> id, balance |-> balance, currency |-> currency, owner |-> owner]

WithdrawalRequest(account_id, amount, currency, timestamp) ==
    [account_id |-> account_id, amount |-> amount, currency |-> currency,
     timestamp |-> timestamp]

Transaction(id, amount, currency, timestamp, remaining_balance) ==
    [id |-> id, amount |-> amount, currency |-> currency,
     timestamp |-> timestamp, remaining_balance |-> remaining_balance]

WithdrawalResult(success, message, transaction) ==
    [type |-> "WithdrawalResult", success |-> success, message |-> message,
     transaction |-> transaction]

WithdrawalError(code, message) ==
    [type |-> "WithdrawalError", code |-> code, message |-> message]

\* The value an operation returns when it returns its BankAccount argument.
ReturnedAccount(account) == [type |-> "BankAccount", account |-> account]

\* No call has been made yet.
None == [type |-> "None"]

\* Decimal("NaN"), a value of the type of balance and amount that is no
\* number.  It is kept apart from every amount of the model, and every
\* operation tests IsNaN before it treats a Decimal as a number.
NaN == 0 - 1000
IsNaN(d) == d = NaN

\* The call did not return: the exception left it.
Raised(exception) == [type |-> "Raised", exception |-> exception]

\* Decimal's <, <=, > and >= signal InvalidOperation when an operand is NaN,
\* and the default context turns the signal into an exception.
InvalidOperation == Raised("decimal.InvalidOperation")

BankAccounts ==
    {BankAccount(i, b, c, o) : i \in {"acc123"}, b \in Balances,
                               c \in Currencies, o \in Owners}

\* The same with the Decimal that is no number.
DecimalBankAccounts ==
    {BankAccount(i, b, c, o) : i \in {"acc123"}, b \in Balances \cup {NaN},
                               c \in {"USD"}, o \in Owners}

DecimalWithdrawalRequests ==
    {WithdrawalRequest(i, a, c, t) : i \in AccountIds, a \in Amounts \cup {NaN},
                                     c \in {"USD"}, t \in {1}}

WithdrawalRequests ==
    {WithdrawalRequest(i, a, c, t) : i \in AccountIds, a \in Amounts,
                                     c \in Currencies, t \in Timestamps}

(***************************************************************************)
(* A call's outcome: the value returned and the state of the account       *)
(* object that was passed in (Python passes the object by reference, so a  *)
(* callee's assignment to a field is seen by the caller).                  *)
(***************************************************************************)
Outcome(ret, account) == [ret |-> ret, account |-> account]

\* The same for process_withdrawal, which is also passed the request object.
WithdrawalOutcome(ret, account, withdrawal) ==
    [ret |-> ret, account |-> account, withdrawal |-> withdrawal]

(***************************************************************************)
(* banking/banking.py: create_account                                      *)
(***************************************************************************)
create_account_accepts_zero(account) ==
    IF account.balance < 0
    THEN Outcome(WithdrawalError("INVALID_AMOUNT",
                                 "Account balance cannot be negative"), account)
    ELSE Outcome(ReturnedAccount(account), account)

create_account_swapped_messages(account) ==
    IF account.balance < 0
    THEN Outcome(WithdrawalError("INVALID_AMOUNT",
                                 "Initial account balance must be positive"), account)
    ELSE IF account.balance = 0
    THEN Outcome(WithdrawalError("INVALID_AMOUNT",
                                 "Account balance cannot be negative"), account)
    ELSE Outcome(ReturnedAccount(account), account)

\* A negative balance is reset to zero on the object before the error returns.
create_account_clamps_negative(account) ==
    IF account.balance < 0
    THEN Outcome(WithdrawalError("INVALID_AMOUNT",
                                 "Account balance cannot be negative"),
                 [account EXCEPT !.balance = 0])
    ELSE IF account.balance = 0
    THEN Outcome(WithdrawalError("INVALID_AMOUNT",
                                 "Initial account balance must be positive"), account)
    ELSE Outcome(ReturnedAccount(account), account)

create_account(account) ==
    IF IsNaN(account.balance)
    THEN Outcome(InvalidOperation, account)
    ELSE IF account.balance < 0
    THEN Outcome(WithdrawalError("INVALID_AMOUNT",
                                 "Account balance cannot be negative"), account)
    ELSE IF account.balance = 0
    THEN Outcome(WithdrawalError("INVALID_AMOUNT",
                                 "Initial account balance must be positive"), account)
    ELSE Outcome(ReturnedAccount(account), account)

(***************************************************************************)
(* banking/banking.py: process_withdrawal                                  *)
(***************************************************************************)
AccountIdError ==
    WithdrawalError("ACCOUNT_NOT_FOUND",
                    "Account ID does not match withdrawal request")

AmountError ==
    WithdrawalError("INVALID_AMOUNT", "Withdrawal amount must be positive")

CurrencyError(account, withdrawal) ==
    WithdrawalError("INVALID_AMOUNT",
                    "Currency mismatch: account is " \o account.currency
                        \o ", withdrawal is " \o withdrawal.currency)

FundsError(account, withdrawal) ==
    WithdrawalError("INSUFFICIENT_FUNDS",
                    "Insufficient funds: balance " \o ToString(account.balance)
                        \o ", withdrawal " \o ToString(withdrawal.amount))

\* The Transaction is built, the assignment of line 91 is left out.
CommitWithdrawal_no_assignment(account, withdrawal, uuid) ==
    LET new_balance == account.balance - withdrawal.amount
        transaction == Transaction(uuid, withdrawal.amount, withdrawal.currency,
                                   withdrawal.timestamp, new_balance)
    IN  WithdrawalOutcome(WithdrawalResult(TRUE, "Withdrawal processed successfully",
                                 transaction),
                account, withdrawal)

\* The amount is added instead of subtracted.
CommitWithdrawal_adds(account, withdrawal, uuid) ==
    LET new_balance == account.balance + withdrawal.amount
        transaction == Transaction(uuid, withdrawal.amount, withdrawal.currency,
                                   withdrawal.timestamp, new_balance)
    IN  WithdrawalOutcome(WithdrawalResult(TRUE, "Withdrawal processed successfully",
                                 transaction),
                [account EXCEPT !.balance = new_balance], withdrawal)

\* The Transaction records the balance before the debit.
CommitWithdrawal_stale_remaining(account, withdrawal, uuid) ==
    LET new_balance == account.balance - withdrawal.amount
        transaction == Transaction(uuid, withdrawal.amount, withdrawal.currency,
                                   withdrawal.timestamp, account.balance)
    IN  WithdrawalOutcome(WithdrawalResult(TRUE, "Withdrawal processed successfully",
                                 transaction),
                [account EXCEPT !.balance = new_balance], withdrawal)

\* The request object is marked as consumed by zeroing its amount.
CommitWithdrawal_consumes_request(account, withdrawal, uuid) ==
    LET new_balance == account.balance - withdrawal.amount
        transaction == Transaction(uuid, withdrawal.amount, withdrawal.currency,
                                   withdrawal.timestamp, new_balance)
    IN  WithdrawalOutcome(WithdrawalResult(TRUE, "Withdrawal processed successfully",
                                 transaction),
                [account EXCEPT !.balance = new_balance],
                [withdrawal EXCEPT !.amount = 0])

\* Lines 80-97: the debit, the Transaction and the in-place balance update.
CommitWithdrawal(account, withdrawal, uuid) ==
    LET new_balance == account.balance - withdrawal.amount
        transaction == Transaction(uuid, withdrawal.amount, withdrawal.currency,
                                   withdrawal.timestamp, new_balance)
    IN  WithdrawalOutcome(WithdrawalResult(TRUE, "Withdrawal processed successfully",
                                 transaction),
                [account EXCEPT !.balance = new_balance], withdrawal)

\* The balance is assigned before the sufficient-funds check.
process_withdrawal_early_debit(account, withdrawal, uuid) ==
    IF account.id # withdrawal.account_id
    THEN WithdrawalOutcome(AccountIdError, account, withdrawal)
    ELSE IF withdrawal.amount <= 0
    THEN WithdrawalOutcome(AmountError, account, withdrawal)
    ELSE IF account.currency # withdrawal.currency
    THEN WithdrawalOutcome(CurrencyError(account, withdrawal), account, withdrawal)
    ELSE IF withdrawal.amount > account.balance
    THEN WithdrawalOutcome(FundsError(account, withdrawal),
                 [account EXCEPT !.balance = account.balance - withdrawal.amount], withdrawal)
    ELSE CommitWithdrawal(account, withdrawal, uuid)

\* The sufficient-funds check is off by one unit.
process_withdrawal_no_funds_check(account, withdrawal, uuid) ==
    IF account.id # withdrawal.account_id
    THEN WithdrawalOutcome(AccountIdError, account, withdrawal)
    ELSE IF withdrawal.amount <= 0
    THEN WithdrawalOutcome(AmountError, account, withdrawal)
    ELSE IF account.currency # withdrawal.currency
    THEN WithdrawalOutcome(CurrencyError(account, withdrawal), account, withdrawal)
    ELSE IF withdrawal.amount > account.balance + 1
    THEN WithdrawalOutcome(FundsError(account, withdrawal), account, withdrawal)
    ELSE CommitWithdrawal(account, withdrawal, uuid)

\* The currency check is made before the identity and amount checks.
process_withdrawal_currency_first(account, withdrawal, uuid) ==
    IF account.currency # withdrawal.currency
    THEN WithdrawalOutcome(CurrencyError(account, withdrawal), account, withdrawal)
    ELSE IF account.id # withdrawal.account_id
    THEN WithdrawalOutcome(AccountIdError, account, withdrawal)
    ELSE IF withdrawal.amount <= 0
    THEN WithdrawalOutcome(AmountError, account, withdrawal)
    ELSE IF withdrawal.amount > account.balance
    THEN WithdrawalOutcome(FundsError(account, withdrawal), account, withdrawal)
    ELSE CommitWithdrawal(account, withdrawal, uuid)

\* The amount check lets zero through (< instead of <=).
process_withdrawal_accepts_zero(account, withdrawal, uuid) ==
    IF account.id # withdrawal.account_id
    THEN WithdrawalOutcome(AccountIdError, account, withdrawal)
    ELSE IF withdrawal.amount < 0
    THEN WithdrawalOutcome(AmountError, account, withdrawal)
    ELSE IF account.currency # withdrawal.currency
    THEN WithdrawalOutcome(CurrencyError(account, withdrawal), account, withdrawal)
    ELSE IF withdrawal.amount > account.balance
    THEN WithdrawalOutcome(FundsError(account, withdrawal), account, withdrawal)
    ELSE CommitWithdrawal(account, withdrawal, uuid)

\* The funds check rejects an amount equal to the balance (>= instead of >).
process_withdrawal_funds_ge(account, withdrawal, uuid) ==
    IF account.id # withdrawal.account_id
    THEN WithdrawalOutcome(AccountIdError, account, withdrawal)
    ELSE IF withdrawal.amount <= 0
    THEN WithdrawalOutcome(AmountError, account, withdrawal)
    ELSE IF account.currency # withdrawal.currency
    THEN WithdrawalOutcome(CurrencyError(account, withdrawal), account, withdrawal)
    ELSE IF withdrawal.amount >= account.balance
    THEN WithdrawalOutcome(FundsError(account, withdrawal), account, withdrawal)
    ELSE CommitWithdrawal(account, withdrawal, uuid)

\* The currency check is left out.
process_withdrawal_no_currency_check(account, withdrawal, uuid) ==
    IF account.id # withdrawal.account_id
    THEN WithdrawalOutcome(AccountIdError, account, withdrawal)
    ELSE IF withdrawal.amount <= 0
    THEN WithdrawalOutcome(AmountError, account, withdrawal)
    ELSE IF withdrawal.amount > account.balance
    THEN WithdrawalOutcome(FundsError(account, withdrawal), account, withdrawal)
    ELSE CommitWithdrawal(account, withdrawal, uuid)

\* Insufficient funds are reported as a WithdrawalResult with success = False.
process_withdrawal_failure_result(account, withdrawal, uuid) ==
    IF account.id # withdrawal.account_id
    THEN WithdrawalOutcome(AccountIdError, account, withdrawal)
    ELSE IF withdrawal.amount <= 0
    THEN WithdrawalOutcome(AmountError, account, withdrawal)
    ELSE IF account.currency # withdrawal.currency
    THEN WithdrawalOutcome(CurrencyError(account, withdrawal), account, withdrawal)
    ELSE IF withdrawal.amount > account.balance
    THEN WithdrawalOutcome(WithdrawalResult(FALSE, "Insufficient funds", None),
                           account, withdrawal)
    ELSE CommitWithdrawal(account, withdrawal, uuid)

process_withdrawal(account, withdrawal, uuid) ==
    IF account.id # withdrawal.account_id
    THEN WithdrawalOutcome(AccountIdError, account, withdrawal)
    ELSE IF IsNaN(withdrawal.amount)
    THEN WithdrawalOutcome(InvalidOperation, account, withdrawal)
    ELSE IF withdrawal.amount <= 0
    THEN WithdrawalOutcome(AmountError, account, withdrawal)
    ELSE IF account.currency # withdrawal.currency
    THEN WithdrawalOutcome(CurrencyError(account, withdrawal), account, withdrawal)
    ELSE IF IsNaN(account.balance)
    THEN WithdrawalOutcome(InvalidOperation, account, withdrawal)
    ELSE IF withdrawal.amount > account.balance
    THEN WithdrawalOutcome(FundsError(account, withdrawal), account, withdrawal)
    ELSE CommitWithdrawal(account, withdrawal, uuid)

(***************************************************************************)
(* State of the core: one account object and the calls made on it.         *)
(***************************************************************************)
VARIABLES
    account,        \* the BankAccount object the caller holds
    accepted,       \* create_account has returned this account
    createArg,      \* the account as passed to the last create_account call
    createResult,   \* what the last create_account call returned
    before,         \* the account as passed to the last process_withdrawal call
    request,        \* the WithdrawalRequest of the last process_withdrawal call
    requestAfter,   \* that WithdrawalRequest object after the call
    refused,        \* the least amount refused for insufficient funds so
                    \* far, 0 when none was
    result,         \* what the last process_withdrawal call returned
    initial,        \* the account as first constructed
    approved,       \* the amounts of the calls that returned success, in order
    emitted,        \* the Transactions returned, in order
    calls,          \* number of calls made
    op              \* the operation called last

coreVars == <<account, accepted, createArg, createResult, before, request,
              requestAfter, refused,
              result, initial, approved, emitted, calls, op>>

(***************************************************************************)
(* State of the application: the database tables and, for each browser     *)
(* session, the position of its script run in show_withdrawal.             *)
(***************************************************************************)
VARIABLES
    dbAccounts,      \* table accounts: the row with id i is dbAccounts[i]
    dbTransactions,  \* table transactions, in insertion order
    dbNow,           \* the database clock read by NOW()
    pc,              \* per session: "page", "form", "approved", "updated"
    acct,            \* per session: the db Account object selected in the form
    loaded,          \* per session: that Account as get_all returned it
    amount,          \* per session: the amount entered in the form
    debited,         \* per session: AccountCRUD.update committed in this attempt
    recorded,        \* per session: TransactionCRUD.create committed in this attempt
    factoryAccepted, \* the proposals create_account has returned in show_new_account
    attempts         \* number of form loads so far

appVars == <<dbAccounts, dbTransactions, dbNow, pc, acct, loaded, amount,
             debited, recorded, factoryAccepted, attempts>>

(***************************************************************************)
(* State of the users module (python/database/users.py) and of the login   *)
(* sessions of the dashboard (python/ui/auth.py, python/ui/main.py).       *)
(***************************************************************************)
VARIABLES
    users,           \* table at.users: the row with user_id i is users[i]
    user_id_seq,     \* the last user_id the table has given out
    clock,           \* the database clock
    session_state,   \* per browser session: st.session_state
    page,            \* per browser session: what the last script run rendered
    login,           \* per browser session: the validate_user_credentials
                     \* call between its SELECT and its UPDATE, or None
    validated,       \* per browser session: every user_data that
                     \* validate_user_credentials returned with True
    last,            \* the last call of the users module that returned
    changed          \* per user_id: the standing change_password, if any

userVars == <<users, user_id_seq, clock, session_state, page, login,
              validated, last, changed>>

vars == <<coreVars, appVars, userVars>>

Sessions == {1, 2}
MaxAccounts == 2
AccountNumbers == {"", "ACC001", "ACC002"}
OwnerNames == {<<"John", "Doe">>}
FormBalances == 1 .. MaxBalance
FormAmounts == 1 .. (MaxBalance + 1)

(***************************************************************************)
(* db/models.py                                                            *)
(***************************************************************************)
Account(id, account_number, owner_name, balance, currency, created_at, updated_at) ==
    [id |-> id, account_number |-> account_number, owner_name |-> owner_name,
     balance |-> balance, currency |-> currency, created_at |-> created_at,
     updated_at |-> updated_at]

DBTransaction(id, account_id, transaction_type, amount_, description, created_at) ==
    [id |-> id, account_id |-> account_id,
     transaction_type |-> transaction_type, amount |-> amount_,
     description |-> description, created_at |-> created_at]

AccountOwner(id, first_name, last_name) ==
    [id |-> id, first_name |-> first_name, last_name |-> last_name]

(***************************************************************************)
(* db/crud.py.  A statement and the commit that follows it are one step:   *)
(* every session works on the one connection get_db_connection returns.    *)
(***************************************************************************)
\* The UNIQUE constraint on accounts.account_number (migration 0001).
AccountNumberTaken(db, account_number) ==
    \E i \in DOMAIN db : db[i].account_number = account_number

\* AccountCRUD.create: the table after the INSERT.
AccountCRUD_create(db, account_, now) ==
    Append(db, Account(Len(db) + 1, account_.account_number,
                       account_.owner_name, account_.balance,
                       account_.currency, now, now))

\* AccountCRUD.update: the table after the UPDATE ... WHERE id = account.id.
AccountCRUD_update(db, account_, now) ==
    [db EXCEPT ![account_.id] =
        [@ EXCEPT !.account_number = account_.account_number,
                  !.owner_name = account_.owner_name,
                  !.balance = account_.balance,
                  !.currency = account_.currency,
                  !.updated_at = now]]

\* TransactionCRUD.create: the table after the INSERT.
TransactionCRUD_create(tbl, transaction, now) ==
    Append(tbl, DBTransaction(Len(tbl) + 1, transaction.account_id,
                              transaction.transaction_type, transaction.amount,
                              transaction.description, now))

(***************************************************************************)
(* app.py: show_withdrawal                                                 *)
(***************************************************************************)
\* Lines 219-228: the BankAccount built from the selected db Account.
BankAccountOf(account_) ==
    BankAccount(ToString(account_.id), account_.balance, account_.currency,
                AccountOwner(ToString(account_.id), Head(account_.owner_name),
                             Tail(account_.owner_name)))

\* Lines 230-235: the WithdrawalRequest built from the form.
WithdrawalRequestOf(account_, amount_, now) ==
    WithdrawalRequest(ToString(account_.id), amount_, account_.currency, now)

\* The debit is re-applied to the balance stored now, not to the snapshot.
PersistBalance_on_stored_balance(db, account_, bank_account, now) ==
    AccountCRUD_update(db,
        [account_ EXCEPT !.balance = db[account_.id].balance
                                       - (account_.balance - bank_account.balance)],
        now)

\* Lines 240-242: account.balance = bank_account.balance; AccountCRUD.update.
PersistBalance(db, account_, bank_account, now) ==
    AccountCRUD_update(db, [account_ EXCEPT !.balance = bank_account.balance],
                       now)

\* Lines 245-253: the transaction record written after the update.
WithdrawalRecord(account_, amount_) ==
    DBTransaction(None, account_.id, "withdrawal", amount_, "Withdrawal", None)

(***************************************************************************)
(* python/tools/encryption.py                                              *)
(***************************************************************************)
\* A Fernet token of the password under ENCRYPTING_KEY: a text that is not
\* the password and that the same key turns back into it.
encrypt_password(password) == [fernet |-> password]

decrypt_password(encrypted_password) == encrypted_password.fernet

(***************************************************************************)
(* python/database/users.py.  Every function opens its own session, so two *)
(* callers are two database transactions; a function with one statement    *)
(* is one step, validate_user_credentials is its SELECT and, later, its    *)
(* UPDATE with the commit.                                                 *)
(***************************************************************************)
MaxUsers == 2
MaxClock == 1

Usernames == {"alice", "bob"}
Emails == {"a@example.com", "b@example.com"}
Passwords == {"pw1", "pw2"}
UserIds == 1 .. (MaxUsers + 1)

\* SQL NULL in a timestamp column.
NULL == 0 - 1

UsersOutcome(ret, tbl) == [ret |-> ret, users |-> tbl]

\* Columns of at.users that the statements of users.py name.
UserRow(user_id, username, email, password_hash, is_active, created_at, updated_at, last_login) ==
    [user_id |-> user_id, username |-> username, email |-> email,
     password_hash |-> password_hash, is_active |-> is_active,
     created_at |-> created_at, updated_at |-> updated_at,
     last_login |-> last_login]

\* The row an INSERT of (username, email, password_hash) makes: the key and
\* the column defaults come from the table's definition.
InsertedUser(user_id, username, email, password_hash, current_timestamp) ==
    UserRow(user_id, username, email, password_hash, TRUE, current_timestamp,
            current_timestamp, NULL)

\* The table's uniqueness constraint on username.
UsernameTaken(tbl, username) ==
    \E i \in DOMAIN tbl : tbl[i].username = username

\* Lines 38-45: SELECT ... WHERE username = :username AND is_active = true,
\* .first().
SelectActiveUser(tbl, username) ==
    LET found == {i \in DOMAIN tbl :
                      tbl[i].username = username /\ tbl[i].is_active}
    IN  IF found = {} THEN None
        ELSE tbl[CHOOSE i \in found : \A j \in found : i <= j]

\* Lines 53-60.
UserData(row) ==
    [user_id |-> row.user_id, username |-> row.username,
     email |-> row.email, is_active |-> row.is_active,
     created_at |-> row.created_at, last_login |-> row.last_login]

\* The password is not compared.
validate_user_credentials_any_password(tbl, username, password) ==
    LET row == SelectActiveUser(tbl, username)
    IN  IF row = None THEN <<FALSE, None>>
        ELSE <<TRUE, UserData(row)>>

\* Lines 45-87: what the call returns, decided on the row the SELECT found.
validate_user_credentials(tbl, username, password) ==
    LET row == SelectActiveUser(tbl, username)
    IN  IF row = None THEN <<FALSE, None>>
        ELSE IF decrypt_password(row.password_hash) = password
        THEN <<TRUE, UserData(row)>>
        ELSE <<FALSE, None>>

\* Lines 63-69: UPDATE ... SET last_login = CURRENT_TIMESTAMP WHERE user_id =
\* :user_id, and the commit.
UpdateLastLogin(tbl, user_id, current_timestamp) ==
    IF user_id \in DOMAIN tbl
    THEN [tbl EXCEPT ![user_id].last_login = current_timestamp]
    ELSE tbl

\* INSERT ... ON CONFLICT (username) DO UPDATE: the existing row is rewritten.
create_user_overwrites(tbl, seq, username, email, password, current_timestamp) ==
    IF UsernameTaken(tbl, username)
    THEN [ret |-> FALSE, user_id_seq |-> seq,
          users |-> [i \in DOMAIN tbl |->
                        IF tbl[i].username = username
                        THEN [tbl[i] EXCEPT !.email = email,
                                  !.password_hash = encrypt_password(password)]
                        ELSE tbl[i]]]
    ELSE [ret |-> TRUE, user_id_seq |-> seq + 1,
          users |-> [i \in DOMAIN tbl \cup {seq + 1} |->
                        IF i = seq + 1
                        THEN InsertedUser(seq + 1, username, email,
                                          encrypt_password(password),
                                          current_timestamp)
                        ELSE tbl[i]]]

\* Lines 97-123: the INSERT, or the IntegrityError that the handler of line
\* 118 turns into False.
create_user(tbl, seq, username, email, password, current_timestamp) ==
    IF UsernameTaken(tbl, username)
    THEN [ret |-> FALSE, user_id_seq |-> seq, users |-> tbl]
    ELSE [ret |-> TRUE, user_id_seq |-> seq + 1,
          users |-> [i \in DOMAIN tbl \cup {seq + 1} |->
                        IF i = seq + 1
                        THEN InsertedUser(seq + 1, username, email,
                                          encrypt_password(password),
                                          current_timestamp)
                        ELSE tbl[i]]]

\* True is returned and the new password never reaches the row.
change_password_keeps_hash(tbl, username, new_password, current_timestamp) ==
    IF UsernameTaken(tbl, username)
    THEN UsersOutcome(TRUE,
             [i \in DOMAIN tbl |->
                 IF tbl[i].username = username
                 THEN [tbl[i] EXCEPT !.updated_at = current_timestamp]
                 ELSE tbl[i]])
    ELSE UsersOutcome(FALSE, tbl)

\* Lines 126-156: UPDATE ... WHERE username = :username, rowcount.
change_password(tbl, username, new_password, current_timestamp) ==
    IF \E i \in DOMAIN tbl : tbl[i].username = username
    THEN UsersOutcome(TRUE,
             [i \in DOMAIN tbl |->
                 IF tbl[i].username = username
                 THEN [tbl[i] EXCEPT
                          !.password_hash = encrypt_password(new_password),
                          !.updated_at = current_timestamp]
                 ELSE tbl[i]])
    ELSE UsersOutcome(FALSE, tbl)

\* The WHERE clause is missing: every row is deactivated.
deactivate_user_every_row(tbl, user_id, current_timestamp) ==
    IF user_id \in DOMAIN tbl
    THEN UsersOutcome(TRUE,
             [i \in DOMAIN tbl |->
                 [tbl[i] EXCEPT !.is_active = FALSE,
                                !.updated_at = current_timestamp]])
    ELSE UsersOutcome(FALSE, tbl)

\* Lines 199-225.
deactivate_user(tbl, user_id, current_timestamp) ==
    IF user_id \in DOMAIN tbl
    THEN UsersOutcome(TRUE,
             [tbl EXCEPT ![user_id].is_active = FALSE,
                         ![user_id].updated_at = current_timestamp])
    ELSE UsersOutcome(FALSE, tbl)

\* Lines 228-254.
activate_user(tbl, user_id, current_timestamp) ==
    IF user_id \in DOMAIN tbl
    THEN UsersOutcome(TRUE,
             [tbl EXCEPT ![user_id].is_active = TRUE,
                         ![user_id].updated_at = current_timestamp])
    ELSE UsersOutcome(FALSE, tbl)

\* The rowcount is not looked at: the call reports True for any user_id.
delete_user_always_true(tbl, user_id) ==
    UsersOutcome(TRUE, [i \in DOMAIN tbl \ {user_id} |-> tbl[i]])

\* Lines 257-282.
delete_user(tbl, user_id) ==
    IF user_id \in DOMAIN tbl
    THEN UsersOutcome(TRUE, [i \in DOMAIN tbl \ {user_id} |-> tbl[i]])
    ELSE UsersOutcome(FALSE, tbl)

(***************************************************************************)
(* python/ui/auth.py, python/ui/main.py.  st.session_state is a mapping    *)
(* from the keys set so far to their values.                               *)
(***************************************************************************)
Browsers == {1, 2}
FormUsernames == {""} \cup Usernames
FormPasswords == {""} \cup Passwords

\* st.session_state.<key> = value
SetKey(state, key, value) ==
    [k \in DOMAIN state \cup {key} |-> IF k = key THEN value ELSE state[k]]

\* del st.session_state[key]
DelKey(state, key) == [k \in DOMAIN state \ {key} |-> state[k]]

\* auth.py, lines 97-99.
check_authentication(state) ==
    IF "authenticated" \in DOMAIN state THEN state["authenticated"] ELSE FALSE

\* auth.py, lines 102-104.
get_current_user(state) ==
    IF "user_data" \in DOMAIN state THEN state["user_data"] ELSE None

\* The session is marked authenticated whatever the call returned.
StoreLogin_unconditional(state, is_valid, user_data) ==
    SetKey(SetKey(state, "authenticated", TRUE), "user_data", user_data)

\* auth.py, lines 67-74: what show_login_page does with the call's result.
StoreLogin(state, is_valid, user_data) ==
    IF is_valid /\ user_data # None
    THEN SetKey(SetKey(state, "authenticated", TRUE), "user_data", user_data)
    ELSE state

RECURSIVE DelKeys(_, _)
DelKeys(state, keys) ==
    IF keys = {} THEN state
    ELSE LET key == CHOOSE k \in keys : TRUE
         IN  DelKeys(DelKey(state, key), keys \ {key})

\* auth.py, lines 109-114 (the st.rerun() of line 115 is the next script run).
logout(state) ==
    LET cleared == SetKey(SetKey(state, "authenticated", FALSE),
                          "user_data", None)
    IN  DelKeys(cleared, DOMAIN cleared \ {"authenticated", "user_data"})

\* main.py, lines 27-30.
InitSessionState(state) ==
    LET s1 == IF "authenticated" \notin DOMAIN state
              THEN SetKey(state, "authenticated", FALSE) ELSE state
    IN  IF "user_data" \notin DOMAIN s1
        THEN SetKey(s1, "user_data", None) ELSE s1

\* main.py, lines 152-153 and ui/instrument_view.py, lines 1194-1195: the
\* keys the main application sets while it renders; has_positions tells
\* whether the portfolio has rows to select from.
RenderMainApp(state, has_positions) ==
    LET s1 == IF "current_page" \notin DOMAIN state
              THEN SetKey(state, "current_page", "instruments") ELSE state
    IN  IF has_positions /\ "selected_position_index" \notin DOMAIN s1
        THEN SetKey(s1, "selected_position_index", 0) ELSE s1

\* main.py, lines 27-35: one run of the script with no widget pressed.
main(state, has_positions) ==
    LET s1 == InitSessionState(state)
    IN  IF ~check_authentication(s1)
        THEN [session_state |-> s1, page |-> "login"]
        ELSE [session_state |-> RenderMainApp(s1, has_positions),
              page |-> "main"]

\* No function of the users module has returned yet.
NoCall == [op |-> "none"]

UsersIdle ==
    /\ users = <<>>
    /\ user_id_seq = 0
    /\ clock = 0
    /\ session_state = [c \in Browsers |-> <<>>]
    /\ page = [c \in Browsers |-> "none"]
    /\ login = [c \in Browsers |-> None]
    /\ validated = [c \in Browsers |-> {}]
    /\ last = NoCall
    /\ changed = <<>>

CoreIdle ==
    /\ account = None
    /\ initial = None
    /\ accepted = FALSE
    /\ createArg = None
    /\ createResult = None
    /\ before = None
    /\ request = None
    /\ requestAfter = None
    /\ refused = 0
    /\ result = None
    /\ approved = <<>>
    /\ emitted = <<>>
    /\ calls = 0
    /\ op = "none"

\* The accounts table after migrations 0001 and 0002 (one of the sample rows).
SampleAccounts ==
    <<Account(1, "ACC001", <<"John", "Doe">>, MaxBalance, "USD", 0, 0)>>

AppIdle ==
    /\ dbAccounts = SampleAccounts
    /\ dbTransactions = <<>>
    /\ dbNow = 1
    /\ pc = [s \in Sessions |-> "page"]
    /\ acct = [s \in Sessions |-> None]
    /\ loaded = [s \in Sessions |-> None]
    /\ amount = [s \in Sessions |-> 0]
    /\ debited = [s \in Sessions |-> FALSE]
    /\ recorded = [s \in Sessions |-> FALSE]
    /\ factoryAccepted = {}
    /\ attempts = 0

Init ==
    /\ account \in BankAccounts
    /\ initial = account
    /\ accepted = FALSE
    /\ createArg = None
    /\ createResult = None
    /\ before = None
    /\ request = None
    /\ requestAfter = None
    /\ refused = 0
    /\ result = None
    /\ approved = <<>>
    /\ emitted = <<>>
    /\ calls = 0
    /\ op = "none"
    /\ AppIdle
    /\ UsersIdle

\* uuid.uuid4(): the n-th identifier generated.
uuid4 == Len(emitted) + 1

CreateAccount ==
    /\ calls < MaxCalls
    /\ LET out == create_account(account)
       IN  /\ createArg' = account
           /\ createResult' = out.ret
           /\ account' = out.account
           /\ accepted' = (accepted \/ out.ret.type = "BankAccount")
    /\ calls' = calls + 1
    /\ op' = "create_account"
    /\ UNCHANGED <<before, request, requestAfter, refused, result, initial,
                   approved, emitted>>
    /\ UNCHANGED <<appVars, userVars>>

\* One process_withdrawal call on the account, with the given request.
Withdraw(withdrawal) ==
    /\ calls < MaxCalls
    /\ LET out == process_withdrawal(account, withdrawal, uuid4)
           ok == out.ret.type = "WithdrawalResult" /\ out.ret.success
           emits == out.ret.type = "WithdrawalResult"
                        /\ out.ret.transaction # None
       IN  /\ before' = account
           /\ request' = withdrawal
           /\ requestAfter' = out.withdrawal
           /\ refused' = IF out.ret.type = "WithdrawalError"
                              /\ out.ret.code = "INSUFFICIENT_FUNDS"
                              /\ (refused = 0 \/ withdrawal.amount < refused)
                          THEN withdrawal.amount
                          ELSE refused
           /\ result' = out.ret
           /\ account' = out.account
           /\ approved' = IF ok THEN Append(approved, withdrawal.amount)
                                ELSE approved
           /\ emitted' = IF emits THEN Append(emitted, out.ret.transaction)
                               ELSE emitted
    /\ calls' = calls + 1
    /\ op' = "process_withdrawal"
    /\ UNCHANGED <<accepted, createArg, createResult, initial>>
    /\ UNCHANGED <<appVars, userVars>>

ProcessWithdrawal ==
    \E withdrawal \in WithdrawalRequests : Withdraw(withdrawal)

Next ==
    \/ CreateAccount
    \/ ProcessWithdrawal

Spec == Init /\ [][Next]_vars

(***************************************************************************)
(* The core on every Decimal: balances and amounts may be NaN.             *)
(***************************************************************************)
DecimalInit ==
    /\ account \in DecimalBankAccounts
    /\ initial = account
    /\ accepted = FALSE
    /\ createArg = None
    /\ createResult = None
    /\ before = None
    /\ request = None
    /\ requestAfter = None
    /\ refused = 0
    /\ result = None
    /\ approved = <<>>
    /\ emitted = <<>>
    /\ calls = 0
    /\ op = "none"
    /\ AppIdle
    /\ UsersIdle

ProcessDecimalWithdrawal ==
    \E withdrawal \in DecimalWithdrawalRequests : Withdraw(withdrawal)

DecimalNext ==
    \/ CreateAccount
    \/ ProcessDecimalWithdrawal

DecimalSpec == DecimalInit /\ [][DecimalNext]_vars

(***************************************************************************)
(* The application: sessions running show_withdrawal and show_new_account  *)
(* against the one database.                                               *)
(***************************************************************************)
AppInit ==
    /\ CoreIdle
    /\ AppIdle
    /\ UsersIdle

\* show_withdrawal, lines 189-203: AccountCRUD.get_all and the selection of
\* one account in the form.
LoadAccounts(s) ==
    /\ pc[s] = "page"
    /\ attempts < MaxAttempts
    /\ \E i \in DOMAIN dbAccounts :
          /\ acct' = [acct EXCEPT ![s] = dbAccounts[i]]
          /\ loaded' = [loaded EXCEPT ![s] = dbAccounts[i]]
    /\ pc' = [pc EXCEPT ![s] = "form"]
    /\ amount' = [amount EXCEPT ![s] = 0]
    /\ debited' = [debited EXCEPT ![s] = FALSE]
    /\ recorded' = [recorded EXCEPT ![s] = FALSE]
    /\ attempts' = attempts + 1
    /\ UNCHANGED <<dbAccounts, dbTransactions, dbNow, factoryAccepted>>
    /\ UNCHANGED <<coreVars, userVars>>

\* The result is not looked at: the flow goes on to the update after a
\* rejection too.
SubmitWithdrawal_ignores_rejection(s) ==
    /\ pc[s] = "form"
    /\ \E amount_ \in FormAmounts :
          LET bank_account == BankAccountOf(acct[s])
              withdrawal_request == WithdrawalRequestOf(acct[s], amount_, dbNow)
              out == process_withdrawal(bank_account, withdrawal_request, attempts)
          IN  /\ amount' = [amount EXCEPT ![s] = amount_]
              /\ acct' = [acct EXCEPT ![s].balance = out.account.balance]
              /\ pc' = [pc EXCEPT ![s] = "approved"]
    /\ UNCHANGED <<dbAccounts, dbTransactions, dbNow, loaded, debited,
                   recorded, factoryAccepted, attempts>>
    /\ UNCHANGED <<coreVars, userVars>>

\* show_withdrawal, lines 216-241 and 257-258: the form is submitted and
\* process_withdrawal decides.
SubmitWithdrawal(s) ==
    /\ pc[s] = "form"
    /\ \E amount_ \in FormAmounts :
          LET bank_account == BankAccountOf(acct[s])
              withdrawal_request == WithdrawalRequestOf(acct[s], amount_, dbNow)
              out == process_withdrawal(bank_account, withdrawal_request, attempts)
          IN  /\ amount' = [amount EXCEPT ![s] = amount_]
              /\ IF out.ret.type = "WithdrawalResult" /\ out.ret.success
                 THEN /\ acct' = [acct EXCEPT ![s].balance = out.account.balance]
                      /\ pc' = [pc EXCEPT ![s] = "approved"]
                 ELSE /\ acct' = acct
                      /\ pc' = [pc EXCEPT ![s] = "page"]
    /\ UNCHANGED <<dbAccounts, dbTransactions, dbNow, loaded, debited,
                   recorded, factoryAccepted, attempts>>
    /\ UNCHANGED <<coreVars, userVars>>

\* show_withdrawal, line 242: AccountCRUD.update commits the new balance, or
\* raises and the handler of line 260 ends the attempt.
UpdateAccount(s) ==
    /\ pc[s] = "approved"
    /\ \E raises \in BOOLEAN :
          IF raises
          THEN /\ pc' = [pc EXCEPT ![s] = "page"]
               /\ UNCHANGED <<dbAccounts, dbNow, debited>>
          ELSE /\ dbAccounts' = PersistBalance(dbAccounts, loaded[s], acct[s], dbNow)
               /\ dbNow' = dbNow + 1
               /\ debited' = [debited EXCEPT ![s] = TRUE]
               /\ pc' = [pc EXCEPT ![s] = "updated"]
    /\ UNCHANGED <<dbTransactions, acct, loaded, amount, recorded,
                   factoryAccepted, attempts>>
    /\ UNCHANGED <<coreVars, userVars>>

\* show_withdrawal, lines 245-253: TransactionCRUD.create commits the record,
\* or raises and the handler of line 260 ends the attempt.
CreateTransaction(s) ==
    /\ pc[s] = "updated"
    /\ \E raises \in BOOLEAN :
          IF raises
          THEN UNCHANGED <<dbTransactions, dbNow, recorded>>
          ELSE /\ dbTransactions' =
                      TransactionCRUD_create(dbTransactions,
                          WithdrawalRecord(acct[s], amount[s]), dbNow)
               /\ dbNow' = dbNow + 1
               /\ recorded' = [recorded EXCEPT ![s] = TRUE]
    /\ pc' = [pc EXCEPT ![s] = "page"]
    /\ UNCHANGED <<dbAccounts, acct, loaded, amount, debited,
                   factoryAccepted, attempts>>
    /\ UNCHANGED <<coreVars, userVars>>

\* show_new_account, lines 160-181: the submitted form goes to
\* AccountCRUD.create; create_account is not called on the way.
ShowNewAccount(s) ==
    /\ pc[s] = "page"
    /\ Len(dbAccounts) < MaxAccounts
    /\ \E account_number \in AccountNumbers, owner_name \in OwnerNames,
          balance \in FormBalances, currency \in Currencies :
          LET new_account == Account(None, account_number, owner_name,
                                     balance, currency, None, None)
          IN  /\ account_number # ""
              /\ ~AccountNumberTaken(dbAccounts, account_number)
              /\ dbAccounts' = AccountCRUD_create(dbAccounts, new_account, dbNow)
              /\ dbNow' = dbNow + 1
    /\ UNCHANGED <<dbTransactions, pc, acct, loaded, amount, debited,
                   recorded, factoryAccepted, attempts>>
    /\ UNCHANGED <<coreVars, userVars>>

AppNext ==
    \E s \in Sessions :
        \/ LoadAccounts(s)
        \/ SubmitWithdrawal(s)
        \/ UpdateAccount(s)
        \/ CreateTransaction(s)
        \/ ShowNewAccount(s)

AppSpec == AppInit /\ [][AppNext]_vars

(***************************************************************************)
(* The users module and the dashboard's login sessions: browser sessions   *)
(* that log in and out while users are created, changed and deleted.       *)
(***************************************************************************)
UsersInit ==
    /\ CoreIdle
    /\ AppIdle
    /\ UsersIdle

\* The table after one create_user("alice", "a@example.com", "pw1").
SampleUsers ==
    create_user(<<>>, 0, "alice", "a@example.com", "pw1", 0).users

SampleInit ==
    /\ CoreIdle
    /\ AppIdle
    /\ users = SampleUsers
    /\ user_id_seq = 1
    /\ clock = 0
    /\ session_state = [c \in Browsers |-> <<>>]
    /\ page = [c \in Browsers |-> "none"]
    /\ login = [c \in Browsers |-> None]
    /\ validated = [c \in Browsers |-> {}]
    /\ last = NoCall
    /\ changed = <<>>

\* Time passes on the database server.
Tick ==
    /\ clock < MaxClock
    /\ clock' = clock + 1
    /\ UNCHANGED <<users, user_id_seq, session_state, page, login, validated,
                   last, changed>>
    /\ UNCHANGED <<coreVars, appVars>>

CreateUser ==
    /\ \E username \in Usernames, email \in Emails, password \in Passwords :
          LET out == create_user(users, user_id_seq, username, email,
                                 password, clock)
          IN  /\ out.user_id_seq <= MaxUsers
              /\ users' = out.users
              /\ user_id_seq' = out.user_id_seq
              /\ last' = [op |-> "create_user", username |-> username,
                          password |-> password, ret |-> out.ret]
    /\ UNCHANGED <<clock, session_state, page, login, validated, changed>>
    /\ UNCHANGED <<coreVars, appVars>>

\* changed keeps, for every row a successful change_password found active,
\* the password it set and the one it replaced, until the next change.
ChangePassword ==
    /\ \E username \in Usernames, new_password \in Passwords :
          LET out == change_password(users, username, new_password, clock)
              hit == {i \in DOMAIN users : users[i].username = username}
          IN  /\ users' = out.users
              /\ last' = [op |-> "change_password", username |-> username,
                          password |-> new_password, ret |-> out.ret]
              /\ changed' =
                    IF out.ret
                    THEN [i \in (DOMAIN changed \ hit)
                                 \cup {j \in hit : users[j].is_active} |->
                            IF i \in hit
                            THEN [username |-> username,
                                  password |-> new_password,
                                  previous |->
                                      decrypt_password(users[i].password_hash)]
                            ELSE changed[i]]
                    ELSE changed
    /\ UNCHANGED <<user_id_seq, clock, session_state, page, login, validated>>
    /\ UNCHANGED <<coreVars, appVars>>

DeactivateUser ==
    /\ \E user_id \in UserIds :
          LET out == deactivate_user(users, user_id, clock)
          IN  /\ users' = out.users
              /\ last' = [op |-> "deactivate_user", user_id |-> user_id,
                          was_active |-> (user_id \in DOMAIN users
                                             /\ users[user_id].is_active),
                          ret |-> out.ret]
    /\ UNCHANGED <<user_id_seq, clock, session_state, page, login, validated,
                   changed>>
    /\ UNCHANGED <<coreVars, appVars>>

ActivateUser ==
    /\ \E user_id \in UserIds :
          LET out == activate_user(users, user_id, clock)
          IN  /\ users' = out.users
              /\ last' = [op |-> "activate_user", user_id |-> user_id,
                          was_active |-> (user_id \in DOMAIN users
                                             /\ users[user_id].is_active),
                          ret |-> out.ret]
    /\ UNCHANGED <<user_id_seq, clock, session_state, page, login, validated,
                   changed>>
    /\ UNCHANGED <<coreVars, appVars>>

DeleteUser ==
    /\ \E user_id \in UserIds :
          LET out == delete_user(users, user_id)
          IN  /\ users' = out.users
              /\ last' = [op |-> "delete_user", user_id |-> user_id,
                          ret |-> out.ret]
    /\ UNCHANGED <<user_id_seq, clock, session_state, page, login, validated,
                   changed>>
    /\ UNCHANGED <<coreVars, appVars>>

\* The browser session opens the dashboard: the first run of main.py.
OpenApp(c) ==
    /\ page[c] = "none"
    /\ \E has_positions \in BOOLEAN :
          LET out == main(session_state[c], has_positions)
          IN  /\ session_state' = [session_state EXCEPT ![c] = out.session_state]
              /\ page' = [page EXCEPT ![c] = out.page]
    /\ UNCHANGED <<users, user_id_seq, clock, login, validated, last, changed>>
    /\ UNCHANGED <<coreVars, appVars>>

\* show_login_page, lines 57-74, up to the SELECT of
\* validate_user_credentials: an empty field is refused by the form, a call
\* that finds no row or another password returns (False, None) at once, and
\* a call that finds the password goes on to its UPDATE.
SubmitLogin(c) ==
    /\ page[c] = "login"
    /\ login[c] = None
    /\ \E username \in FormUsernames, password \in FormPasswords :
          IF username = "" \/ password = ""
          THEN UNCHANGED <<session_state, login, last>>
          ELSE LET out == validate_user_credentials(users, username, password)
               IN  IF out[1]
                   THEN /\ login' = [login EXCEPT ![c] =
                                        [username |-> username,
                                         password |-> password,
                                         user_data |-> out[2],
                                         started |-> clock]]
                        /\ UNCHANGED <<session_state, last>>
                   ELSE /\ session_state' =
                              [session_state EXCEPT ![c] =
                                  StoreLogin(@, out[1], out[2])]
                        /\ last' = [op |-> "validate_user_credentials",
                                    username |-> username,
                                    password |-> password, returned |-> out]
                        /\ UNCHANGED login
    /\ UNCHANGED <<users, user_id_seq, clock, page, validated, changed>>
    /\ UNCHANGED <<coreVars, appVars>>

\* validate_user_credentials, lines 63-72, and show_login_page, lines 67-72:
\* the UPDATE writes CURRENT_TIMESTAMP, which is the time the call's
\* transaction began (at its SELECT); the call returns (True, user_data),
\* the session is marked and st.rerun() runs main.py again.
CompleteLogin(c) ==
    /\ login[c] # None
    /\ users' = UpdateLastLogin(users, login[c].user_data.user_id,
                                login[c].started)
    /\ last' = [op |-> "validate_user_credentials",
                username |-> login[c].username,
                password |-> login[c].password,
                returned |-> <<TRUE, login[c].user_data>>]
    /\ validated' = [validated EXCEPT ![c] = @ \cup {login[c].user_data}]
    /\ \E has_positions \in BOOLEAN :
          LET out == main(StoreLogin(session_state[c], TRUE,
                                     login[c].user_data), has_positions)
          IN  /\ session_state' = [session_state EXCEPT ![c] = out.session_state]
              /\ page' = [page EXCEPT ![c] = out.page]
    /\ login' = [login EXCEPT ![c] = None]
    /\ UNCHANGED <<user_id_seq, clock, changed>>
    /\ UNCHANGED <<coreVars, appVars>>

\* A widget of the main application is used: main.py runs again.
Navigate(c) ==
    /\ page[c] = "main"
    /\ \E has_positions \in BOOLEAN :
          LET out == main(session_state[c], has_positions)
          IN  /\ session_state' = [session_state EXCEPT ![c] = out.session_state]
              /\ page' = [page EXCEPT ![c] = out.page]
    /\ UNCHANGED <<users, user_id_seq, clock, login, validated, last, changed>>
    /\ UNCHANGED <<coreVars, appVars>>

\* show_user_info, lines 120-136: the logout button, shown when user_data is
\* set, calls logout(), whose st.rerun() runs main.py again.
Logout(c) ==
    /\ page[c] = "main"
    /\ get_current_user(session_state[c]) # None
    /\ \E has_positions \in BOOLEAN :
          LET out == main(logout(session_state[c]), has_positions)
          IN  /\ session_state' = [session_state EXCEPT ![c] = out.session_state]
              /\ page' = [page EXCEPT ![c] = out.page]
    /\ UNCHANGED <<users, user_id_seq, clock, login, validated, last, changed>>
    /\ UNCHANGED <<coreVars, appVars>>

\* A direct call of validate_user_credentials (a test, the user management
\* page), up to its SELECT: a call that finds no row or another password
\* returns (False, None) at once.
BeginValidate(c) ==
    /\ page[c] = "none"
    /\ login[c] = None
    /\ \E username \in Usernames, password \in Passwords :
          LET out == validate_user_credentials(users, username, password)
          IN  IF out[1]
              THEN /\ login' = [login EXCEPT ![c] =
                                   [username |-> username,
                                    password |-> password,
                                    user_data |-> out[2],
                                    started |-> clock]]
                   /\ UNCHANGED last
              ELSE /\ last' = [op |-> "validate_user_credentials",
                               username |-> username,
                               password |-> password, returned |-> out]
                   /\ UNCHANGED login
    /\ UNCHANGED <<users, user_id_seq, clock, session_state, page, validated,
                   changed>>
    /\ UNCHANGED <<coreVars, appVars>>

\* The rest of that call, lines 63-72: the UPDATE writes CURRENT_TIMESTAMP,
\* which is the time the call's transaction began (at its SELECT).
FinishValidate(c) ==
    /\ page[c] = "none"
    /\ login[c] # None
    /\ users' = UpdateLastLogin(users, login[c].user_data.user_id,
                                login[c].started)
    /\ last' = [op |-> "validate_user_credentials",
                username |-> login[c].username,
                password |-> login[c].password,
                returned |-> <<TRUE, login[c].user_data>>]
    /\ login' = [login EXCEPT ![c] = None]
    /\ UNCHANGED <<user_id_seq, clock, session_state, page, validated,
                   changed>>
    /\ UNCHANGED <<coreVars, appVars>>

UsersNext ==
    \/ CreateUser
    \/ ChangePassword
    \/ DeactivateUser
    \/ ActivateUser
    \/ DeleteUser

UsersSpec == UsersInit /\ [][UsersNext]_vars

\* Two callers logging the sample user in while time passes and the user is
\* deactivated, activated and deleted.
LoginNext ==
    \/ Tick
    \/ DeactivateUser
    \/ ActivateUser
    \/ DeleteUser
    \/ \E c \in Browsers :
          \/ BeginValidate(c)
          \/ FinishValidate(c)

LoginSpec == SampleInit /\ [][LoginNext]_vars

\* The dashboard: browser sessions logging in and out while the sample user
\* is deactivated and activated.
SessionNext ==
    \/ DeactivateUser
    \/ ActivateUser
    \/ \E c \in Browsers :
          \/ OpenApp(c)
          \/ SubmitLogin(c)
          \/ CompleteLogin(c)
          \/ Navigate(c)
          \/ Logout(c)

SessionSpec == SampleInit /\ [][SessionNext]_vars

(***************************************************************************)
(* Properties of the core.                                                 *)
(***************************************************************************)
RECURSIVE SumSeq(_)
SumSeq(seq) == IF seq = <<>> THEN 0 ELSE Head(seq) + SumSeq(Tail(seq))

Withdrew == op = "process_withdrawal"
Rejected == Withdrew /\ result.type = "WithdrawalError"
Succeeded == Withdrew /\ result.type = "WithdrawalResult"

\* C1: a rejected process_withdrawal call leaves the account argument
\* unchanged: id, balance, currency and owner after the call are those
\* before the call, whichever of the four checks rejected the request.
C1_RejectedLeavesAccountUnchanged ==
    Rejected =>
        /\ account.id = before.id
        /\ account.balance = before.balance
        /\ account.currency = before.currency
        /\ account.owner = before.owner

\* A request that passes the first three checks is rejected for funds.
C1_Witness ==
    /\ Rejected
    /\ result.code = "INSUFFICIENT_FUNDS"
    /\ request.amount > before.balance
    /\ before.balance > 0

\* C2: after a successful process_withdrawal call the balance is the balance
\* before the call minus the requested amount, and it is not negative.
C2_SuccessDebitsExactly ==
    Succeeded =>
        /\ account.balance = before.balance - request.amount
        /\ account.balance >= 0

C2_Witness ==
    /\ Succeeded
    /\ request.amount > 0
    /\ request.amount < before.balance

\* C3: an account that create_account has accepted never has a negative
\* balance, whatever process_withdrawal calls are made on it.
C3_AcceptedBalanceNeverNegative ==
    accepted => account.balance >= 0

\* An accepted account has been drawn down to zero and then asked for more.
C3_Witness ==
    /\ accepted
    /\ account.balance = 0
    /\ Len(approved) > 0
    /\ Rejected
    /\ result.code = "INSUFFICIENT_FUNDS"

\* C4: process_withdrawal reports the first failing check in the order
\* identity, amount positivity, currency match, sufficient funds.
C4_FirstFailingCheckWins ==
    Withdrew =>
        /\ before.id # request.account_id =>
               /\ result.type = "WithdrawalError"
               /\ result.code = "ACCOUNT_NOT_FOUND"
        /\ (before.id = request.account_id /\ request.amount <= 0) =>
               /\ result.type = "WithdrawalError"
               /\ result.code = "INVALID_AMOUNT"
               /\ result.message = "Withdrawal amount must be positive"
        /\ (before.id = request.account_id /\ request.amount > 0
                /\ before.currency # request.currency) =>
               /\ result.type = "WithdrawalError"
               /\ result.code = "INVALID_AMOUNT"
               /\ result.message = "Currency mismatch: account is "
                                       \o before.currency
                                       \o ", withdrawal is "
                                       \o request.currency

\* A request that fails the identity, the amount and the currency check.
C4_Witness ==
    /\ Withdrew
    /\ before.id # request.account_id
    /\ request.amount <= 0
    /\ before.currency # request.currency
    /\ result.code = "ACCOUNT_NOT_FOUND"

\* C7: the balance is the initial balance minus the sum of the amounts of
\* the calls that returned success, and one Transaction was emitted for each
\* of these calls.
C7_ExactlyOnceDebit ==
    /\ account.balance = initial.balance - SumSeq(approved)
    /\ Len(emitted) = Len(approved)

\* Two approved withdrawals with a rejected one in the sequence.
C7_Witness ==
    /\ Len(approved) = 2
    /\ Len(emitted) = 2
    /\ calls > 2
    /\ account.balance = initial.balance - 2

\* C8: an account returned by create_account has a positive balance and is
\* the input account with every field unchanged.
C8_ReturnedAccountPositiveAndUnchanged ==
    (op = "create_account" /\ createResult.type = "BankAccount") =>
        /\ createResult.account.balance > 0
        /\ createResult.account = createArg
        /\ account = createArg

C8_Witness ==
    /\ op = "create_account"
    /\ createResult.type = "BankAccount"
    /\ createResult.account.balance = 1

\* C9: create_account rejects a negative balance with INVALID_AMOUNT and
\* "Account balance cannot be negative", a zero balance with INVALID_AMOUNT
\* and "Initial account balance must be positive", and does not modify the
\* input account in either case.
C9_CreateAccountRejections ==
    op = "create_account" =>
        /\ createArg.balance < 0 =>
               /\ createResult = WithdrawalError("INVALID_AMOUNT",
                                     "Account balance cannot be negative")
               /\ account = createArg
        /\ createArg.balance = 0 =>
               /\ createResult = WithdrawalError("INVALID_AMOUNT",
                                     "Initial account balance must be positive")
               /\ account = createArg

\* A zero balance reached by withdrawals is rejected like an initial one.
C9_Witness ==
    /\ op = "create_account"
    /\ createArg.balance = 0
    /\ createResult.type = "WithdrawalError"

\* The four checks of process_withdrawal, on finite amounts.
AllChecksPass(account_, withdrawal) ==
    /\ account_.id = withdrawal.account_id
    /\ withdrawal.amount > 0
    /\ account_.currency = withdrawal.currency
    /\ withdrawal.amount <= account_.balance

\* C11: with a matching account id an amount <= 0 is rejected with
\* INVALID_AMOUNT; an amount of zero never yields a success, and no
\* Transaction with amount zero is ever emitted.
C11_NonPositiveAmountRejected ==
    /\ Withdrew =>
          /\ (before.id = request.account_id /\ request.amount <= 0) =>
                 /\ result.type = "WithdrawalError"
                 /\ result.code = "INVALID_AMOUNT"
          /\ request.amount = 0 => result.type # "WithdrawalResult"
    /\ \A i \in 1 .. Len(emitted) : emitted[i].amount # 0

\* A zero amount that passes every other check, on an account with funds.
C11_Witness ==
    /\ Withdrew
    /\ before.id = request.account_id
    /\ before.currency = request.currency
    /\ before.balance > 0
    /\ request.amount = 0
    /\ result.type = "WithdrawalError"
    /\ result.code = "INVALID_AMOUNT"

\* C12: with a matching id, a positive amount and a matching currency the
\* result is the INSUFFICIENT_FUNDS error if and only if the amount exceeds
\* the balance.
C12_InsufficientFundsIff ==
    (Withdrew /\ before.id = request.account_id /\ request.amount > 0
        /\ before.currency = request.currency) =>
        ((result.type = "WithdrawalError" /\ result.code = "INSUFFICIENT_FUNDS")
            <=> request.amount > before.balance)

\* The smallest amount that exceeds the balance.
C12_Witness ==
    /\ Withdrew
    /\ before.id = request.account_id
    /\ before.currency = request.currency
    /\ before.balance > 0
    /\ request.amount = before.balance + 1
    /\ result.type = "WithdrawalError"
    /\ result.code = "INSUFFICIENT_FUNDS"

CurrencyMismatchMessages ==
    {"Currency mismatch" \o ": account is " \o c1 \o ", withdrawal is " \o c2 :
        c1 \in Currencies, c2 \in Currencies}

\* C14: with a matching id and a positive amount a currency that differs
\* from the account's is rejected with INVALID_AMOUNT and a message that
\* contains "Currency mismatch"; no Transaction of a successful withdrawal
\* has a currency other than the account's.
C14_CurrencyMismatchRejected ==
    /\ (Withdrew /\ before.id = request.account_id /\ request.amount > 0
            /\ before.currency # request.currency) =>
          /\ result.type = "WithdrawalError"
          /\ result.code = "INVALID_AMOUNT"
          /\ result.message \in CurrencyMismatchMessages
    /\ Succeeded => result.transaction.currency = before.currency
    /\ \A i \in 1 .. Len(emitted) : emitted[i].currency = account.currency

\* A covered amount in the wrong currency, after an earlier success.
C14_Witness ==
    /\ Withdrew
    /\ before.id = request.account_id
    /\ request.amount > 0
    /\ request.amount <= before.balance
    /\ before.currency # request.currency
    /\ result.type = "WithdrawalError"
    /\ Len(emitted) > 0

\* C15: the Transaction of a successful call carries the request's amount,
\* currency and timestamp, and as remaining_balance the account's balance
\* right after the call.
C15_TransactionCopiesRequest ==
    Succeeded =>
        /\ result.transaction.amount = request.amount
        /\ result.transaction.currency = request.currency
        /\ result.transaction.timestamp = request.timestamp
        /\ result.transaction.remaining_balance = account.balance

C15_Witness ==
    /\ Succeeded
    /\ request.timestamp = 2
    /\ request.amount = 1
    /\ result.transaction.remaining_balance = MaxBalance - 1

ErrorCodes == {"INSUFFICIENT_FUNDS", "INVALID_AMOUNT", "ACCOUNT_NOT_FOUND"}

\* C17: create_account and process_withdrawal always return: a failure is
\* a WithdrawalError with one of the three codes, and no input makes either
\* operation raise an exception.
C17_FailuresAreReturnedErrors ==
    /\ createResult.type \in {"None", "BankAccount", "WithdrawalError"}
    /\ result.type \in {"None", "WithdrawalResult", "WithdrawalError"}
    /\ createResult.type = "WithdrawalError" => createResult.code \in ErrorCodes
    /\ result.type = "WithdrawalError" => result.code \in ErrorCodes

\* C19: process_withdrawal changes no Account field but the balance: id,
\* currency and owner keep their initial values over any sequence of calls,
\* and the WithdrawalRequest passed in is the same after the call.
C19_OnlyBalanceChanges ==
    /\ account.id = initial.id
    /\ account.currency = initial.currency
    /\ account.owner = initial.owner
    /\ Withdrew => requestAfter = request

\* The balance has changed, the other fields and the request have not.
C19_Witness ==
    /\ Succeeded
    /\ account.balance # initial.balance
    /\ Len(approved) = 2
    /\ requestAfter = request

\* C20: a second create_account call on the account the first call was
\* given returns what the first returned, and neither call changes the
\* account.
C20_CreateAccountIdempotent ==
    [][(op = "create_account" /\ op' = "create_account") =>
          /\ createResult' = createResult
          /\ createArg' = createArg
          /\ account' = account
          /\ account = createArg]_vars

\* Two create_account calls in a row on a rejected account.
C20_Witness ==
    /\ op = "create_account"
    /\ calls = 2
    /\ before = None
    /\ createResult.type = "WithdrawalError"
    /\ createArg.balance < 0

(***************************************************************************)
(* Properties of the application flows.                                    *)
(***************************************************************************)
\* C5: in the Make Withdrawal flow the debited balance and the transaction
\* record are persisted as a unit: when an attempt has ended, either both
\* were stored or neither was, also when a database write fails.
C5_PersistedAsUnit ==
    \A s \in Sessions : pc[s] = "page" => (debited[s] = recorded[s])

\* Both sessions were approved on snapshots of the same row taken before
\* either update was written, and both updates have been written.
BothWroteFromSameSnapshot(s, t) ==
    /\ s # t
    /\ debited[s]
    /\ debited[t]
    /\ loaded[s].id = loaded[t].id
    /\ loaded[s].updated_at = loaded[t].updated_at

\* C6: two Make Withdrawal flows that start from snapshots of the same
\* account loaded before the other's update is written and are both approved
\* leave a stored balance that is the snapshot balance minus one of the two
\* amounts, never the snapshot balance minus their sum.
C6_LostUpdate ==
    \A s, t \in Sessions :
        BothWroteFromSameSnapshot(s, t) =>
            LET stored == dbAccounts[loaded[s].id].balance
            IN  /\ stored # loaded[s].balance - (amount[s] + amount[t])
                /\ stored \in {loaded[s].balance - amount[s],
                               loaded[s].balance - amount[t]}

\* Both flows have run to their end: two records, one debit.
C6_Witness ==
    \E s, t \in Sessions :
        /\ BothWroteFromSameSnapshot(s, t)
        /\ recorded[s]
        /\ recorded[t]
        /\ amount[s] + amount[t] > loaded[s].balance
        /\ dbAccounts[loaded[s].id].balance = loaded[s].balance - amount[t]

\* The data of a row as it was proposed in the New Account form.
ProposalOf(row) ==
    [account_number |-> row.account_number, owner_name |-> row.owner_name,
     balance |-> row.balance, currency |-> row.currency]

\* C10: every account the New Account flow has stored was first returned by
\* create_account for the same proposed data.
C10_PersistedOnlyAfterValidation ==
    \A i \in DOMAIN dbAccounts :
        i > Len(SampleAccounts) =>
            ProposalOf(dbAccounts[i]) \in factoryAccepted

(***************************************************************************)
(* Properties of the users module.                                         *)
(***************************************************************************)
\* A row of the table with that username is active and stores that password.
CredentialsMatch(tbl, username, password) ==
    \E i \in DOMAIN tbl :
        /\ tbl[i].username = username
        /\ tbl[i].is_active
        /\ decrypt_password(tbl[i].password_hash) = password

\* The call of caller c goes on from its SELECT to its UPDATE in this step.
Selected(c) == login[c] = None /\ login'[c] # None

\* The call of caller c returns (True, user_data) in this step.
ReturnsTrue(c) == login[c] # None /\ login'[c] = None

\* A call returns without having found the credentials in this step.
ReturnsFalse ==
    /\ last' # last
    /\ last'.op = "validate_user_credentials"
    /\ ~last'.returned[1]

C22_NewPasswordValidUntilNextChange ==
    \A i \in DOMAIN changed :
        /\ validate_user_credentials(users, changed[i].username,
                                     changed[i].password)[1]
        /\ changed[i].previous # changed[i].password =>
               ~validate_user_credentials(users, changed[i].username,
                                          changed[i].previous)[1]

\* C22, amended: the same, for as long as the user is stored and active.
C22_NewPasswordValidWhileActive ==
    \A i \in DOMAIN changed :
        (i \in DOMAIN users /\ users[i].is_active) =>
            /\ validate_user_credentials(users, changed[i].username,
                                         changed[i].password)[1]
            /\ changed[i].previous # changed[i].password =>
                   ~validate_user_credentials(users, changed[i].username,
                                              changed[i].previous)[1]

\* An active user whose password was changed to another one.
C22_Witness ==
    \E i \in DOMAIN changed :
        /\ i \in DOMAIN users
        /\ users[i].is_active
        /\ changed[i].previous # changed[i].password
        /\ last.op # "change_password"

\* No row but that of user_id differs between the two tables.
OthersUnchanged(before_, after_, user_id) ==
    /\ DOMAIN after_ = DOMAIN before_
    /\ \A j \in DOMAIN before_ : j # user_id => after_[j] = before_[j]

\* C23: after deactivate_user(id) has returned True no password validates
\* for that user; after activate_user(id) has returned True the user's
\* unchanged password validates; neither call changes another user.
C23_DeactivateThenActivate ==
    [][/\ (last'.op = "deactivate_user" /\ last'.ret) =>
             /\ last'.user_id \in DOMAIN users
             /\ OthersUnchanged(users, users', last'.user_id)
             /\ \A password \in Passwords :
                   ~validate_user_credentials(
                        users', users[last'.user_id].username, password)[1]
       /\ (last'.op = "activate_user" /\ last'.ret) =>
             /\ last'.user_id \in DOMAIN users
             /\ OthersUnchanged(users, users', last'.user_id)
             /\ users'[last'.user_id].password_hash
                    = users[last'.user_id].password_hash
             /\ validate_user_credentials(
                    users', users[last'.user_id].username,
                    decrypt_password(users[last'.user_id].password_hash))[1]
      ]_vars

\* A deactivated user has been activated while another user is stored.
C23_Witness ==
    /\ last.op = "activate_user"
    /\ last.ret
    /\ ~last.was_active
    /\ users[last.user_id].is_active
    /\ Cardinality(DOMAIN users) = 2

\* The call of this step names a user the table does not hold.
NoSuchUser ==
    \/ /\ last'.op = "change_password"
       /\ ~\E i \in DOMAIN users : users[i].username = last'.username
    \/ /\ last'.op \in {"deactivate_user", "activate_user", "delete_user"}
       /\ last'.user_id \notin DOMAIN users

\* C24: change_password, activate_user, deactivate_user and delete_user on a
\* user that does not exist return False and leave the table as it was.
C24_NoSuchUserChangesNothing ==
    [][NoSuchUser => (last'.ret = FALSE /\ users' = users)]_vars

\* delete_user has returned False while the table holds users.
C24_Witness ==
    /\ last.op = "delete_user"
    /\ ~last.ret
    /\ last.user_id \notin DOMAIN users
    /\ users # <<>>

\* The create_user call of this step names a username the table holds.
DuplicateUsername ==
    /\ last'.op = "create_user"
    /\ UsernameTaken(users, last'.username)

\* The row of that username with its email, password and active flag.
StoredUser(tbl, username) ==
    LET i == CHOOSE j \in DOMAIN tbl : tbl[j].username = username
    IN  [email |-> tbl[i].email, password_hash |-> tbl[i].password_hash,
         is_active |-> tbl[i].is_active]

\* C25, as stated: create_user with a username that exists returns False,
\* leaves the user's email, password and active flag, and the user then
\* validates with the original password and not with the one of the call.
C25_DuplicateKeepsUserAndRejectsPassword ==
    [][DuplicateUsername =>
          LET original == decrypt_password(
                              StoredUser(users, last'.username).password_hash)
          IN  /\ last'.ret = FALSE
              /\ StoredUser(users', last'.username)
                     = StoredUser(users, last'.username)
              /\ validate_user_credentials(users', last'.username, original)[1]
              /\ ~validate_user_credentials(users', last'.username,
                                            last'.password)[1]
      ]_vars

\* C25, amended: the user validates with the original password when active,
\* and not with the password of the call when that is another password.
C25_DuplicateKeepsUser ==
    [][DuplicateUsername =>
          LET stored == StoredUser(users, last'.username)
              original == decrypt_password(stored.password_hash)
          IN  /\ last'.ret = FALSE
              /\ users' = users
              /\ StoredUser(users', last'.username) = stored
              /\ stored.is_active =>
                    validate_user_credentials(users', last'.username,
                                              original)[1]
              /\ last'.password # original =>
                    ~validate_user_credentials(users', last'.username,
                                               last'.password)[1]
      ]_vars

\* A call with the username of an active user and another password has
\* returned False.
C25_Witness ==
    /\ last.op = "create_user"
    /\ ~last.ret
    /\ \E i \in DOMAIN users :
          /\ users[i].username = last.username
          /\ users[i].is_active
          /\ decrypt_password(users[i].password_hash) # last.password

\* C26: a call that returns True leaves the user's last_login set and not
\* earlier than it was; a call that returns False leaves the table as it was.
C26_LastLoginMovesForward ==
    [][/\ \A c \in Browsers :
             ReturnsTrue(c) =>
                 LET user_id == login[c].user_data.user_id
                 IN  (user_id \in DOMAIN users /\ user_id \in DOMAIN users') =>
                         /\ users'[user_id].last_login # NULL
                         /\ users'[user_id].last_login
                                >= users[user_id].last_login
                         /\ OthersUnchanged(users, users', user_id)
       /\ ReturnsFalse => users' = users
      ]_vars

(***************************************************************************)
(* Properties of the Make Withdrawal flow, the core and the login session. *)
(***************************************************************************)
\* What process_withdrawal returns for the form session s submits in this
\* step.
SubmittedOutcome(s) ==
    process_withdrawal(BankAccountOf(acct[s]),
                       WithdrawalRequestOf(acct[s], amount'[s], dbNow),
                       attempts)

\* C27: when process_withdrawal rejects the submitted form the attempt ends
\* there: AccountCRUD.update and TransactionCRUD.create are not reached, and
\* the stored accounts and transactions are as they were.
C27_RejectedAttemptWritesNothing ==
    [][\A s \in Sessions :
          (pc[s] = "form" /\ pc'[s] # "form"
               /\ SubmittedOutcome(s).ret.type = "WithdrawalError") =>
              /\ pc'[s] = "page"
              /\ dbAccounts' = dbAccounts
              /\ dbTransactions' = dbTransactions
              /\ ~debited'[s]
              /\ ~recorded'[s]
      ]_vars

\* An attempt for more than the balance has ended with nothing written.
C27_Witness ==
    \E s \in Sessions :
        /\ pc[s] = "page"
        /\ loaded[s] # None
        /\ amount[s] > loaded[s].balance
        /\ ~debited[s]
        /\ dbAccounts[loaded[s].id] = loaded[s]
        /\ dbTransactions = <<>>

\* The remaining_balance values of the Transactions emitted so far fall
\* strictly.
RemainingBalancesFall ==
    \A i \in 1 .. (Len(emitted) - 1) :
        emitted[i + 1].remaining_balance < emitted[i].remaining_balance

\* The last request asked for no less than an amount refused for
\* insufficient funds, with the account's id and currency.
AsksForRefusedAmount ==
    /\ Withdrew
    /\ refused > 0
    /\ request.amount >= refused
    /\ request.account_id = before.id
    /\ request.currency = before.currency

C29_NoWithdrawalFromEmptyAccount ==
    (Withdrew /\ before.balance <= 0) =>
        (Rejected /\ account.balance = before.balance)

\* A well-formed request on an account of negative balance that
\* create_account never saw.
C29_Witness ==
    /\ Withdrew
    /\ before.balance < 0
    /\ ~accepted
    /\ request.account_id = before.id
    /\ request.currency = before.currency
    /\ request.amount > 0
    /\ Rejected
    /\ result.code = "INSUFFICIENT_FUNDS"

\* st.session_state right after logout().
LoggedOut == [authenticated |-> FALSE, user_data |-> None]

\* C30: a session that is authenticated holds a user_data that
\* validate_user_credentials returned with True in that session; the main
\* application is rendered only in an authenticated session; and logout
\* leaves authenticated False, user_data None and no other key.
C30_AuthenticatedSessionHoldsValidatedUser ==
    /\ [](\A c \in Browsers :
             /\ check_authentication(session_state[c]) =>
                    get_current_user(session_state[c]) \in validated[c]
             /\ page[c] = "main" => check_authentication(session_state[c]))
    /\ [][\A c \in Browsers :
             (page[c] = "main" /\ page'[c] = "login") =>
                 session_state'[c] = LoggedOut]_vars

\* One session is in the main application with keys of its own, another has
\* logged in and out again.
C30_Witness ==
    \E c, d \in Browsers :
        /\ page[c] = "main"
        /\ DOMAIN session_state[c]
               = {"authenticated", "user_data", "current_page",
                  "selected_position_index"}
        /\ page[d] = "login"
        /\ validated[d] # {}
        /\ session_state[d] = LoggedOut

=============================================================================
